---- MODULE Spec2Model ----
(***************************************************************************)
(* Model of scripts/extract_schema.py: extract_schema() walks the list of  *)
(* statements returned by sqlglot.parse, and for every exp.Create builds a *)
(* table dictionary from the body nodes in ONE left-to-right pass; the     *)
(* __main__ block turns any exception into exit code 4 and otherwise dumps *)
(* the schema as JSON.                                                     *)
(*                                                                         *)
(* AST nodes are records [class, args]; args is the node's args dict, so a *)
(* key the parser did not set is a key missing from DOMAIN args and        *)
(* args["k"] raises KeyError.  Text (a Python str) is a sequence of string *)
(* tokens, so that str(node) is a rendering and not the identity.          *)
(***************************************************************************)
EXTENDS Integers, Sequences, FiniteSets, TLC

VARIABLES result, si, bi, pc, table, schema, exc, output

vars == <<result, si, bi, pc, table, schema, exc, output>>

\* Bound on the size of the parsed input: one per statement plus one per
\* body node, summed over the statement list.
MaxSize == 4

(***************************************************************************)
(* The parser's output contract (sqlglot.expressions)                      *)
(***************************************************************************)
Identifier(n, q) == [class |-> "Identifier", args |-> [this |-> n, quoted |-> q]]

TableNode(n) == [class |-> "Table", args |-> [this |-> Identifier(n, FALSE)]]

SchemaNode(t, exprs) == [class |-> "Schema", args |-> [this |-> t, expressions |-> exprs]]

DataType(t) == [class |-> "DataType", args |-> [this |-> t, nested |-> FALSE]]

ColumnConstraint(k) == [class |-> "ColumnConstraint", args |-> [kind |-> k]]

ColumnDef(id, k, cs) ==
  [class |-> "ColumnDef", args |-> [this |-> id, kind |-> k, constraints |-> cs]]

\* A column-definition node whose args dict has no "constraints" key.
ColumnDefNoConstraints(id, k) ==
  [class |-> "ColumnDef", args |-> [this |-> id, kind |-> k]]

Reference(target) == [class |-> "Reference", args |-> [this |-> target]]

ForeignKey(ids, ref) ==
  [class |-> "ForeignKey", args |-> [expressions |-> ids, reference |-> ref]]

PrimaryKey(ids) == [class |-> "PrimaryKey", args |-> [expressions |-> ids]]

Create(kind, this) == [class |-> "Create", args |-> [kind |-> kind, this |-> this]]

Insert(t) == [class |-> "Insert", args |-> [this |-> t]]

IdA == Identifier("a", FALSE)
IdB == Identifier("b", FALSE)
IdQB == Identifier("b", TRUE)

ColumnDefs ==
  { ColumnDef(IdA, DataType("INT"), <<ColumnConstraint("PRIMARY KEY")>>),
    ColumnDef(IdA, DataType("TEXT"), <<>>),
    ColumnDef(IdB, DataType("TEXT"),
              <<ColumnConstraint("NOT NULL"), ColumnConstraint("UNIQUE")>>),
    ColumnDef(IdQB, DataType("INT"), <<>>),
    ColumnDefNoConstraints(IdB, DataType("INT")) }

\* REFERENCES users(id) parses to a Schema over the table, REFERENCES users
\* to the bare Table.
ForeignKeys ==
  { ForeignKey(<<IdA>>, Reference(SchemaNode(TableNode("users"), <<Identifier("id", FALSE)>>))),
    ForeignKey(<<IdB>>, Reference(TableNode("users"))),
    ForeignKey(<<IdA, IdB>>, Reference(TableNode("accounts"))) }

OtherNodes == { PrimaryKey(<<IdA>>) }

BodyNodes == ColumnDefs \cup ForeignKeys \cup OtherNodes

\* The statement heads: INSERT INTO t ..., CREATE TABLE t AS SELECT ... (a
\* Create whose target is a bare Table, without a body), and the statements
\* with a parenthesised body CREATE TABLE t (...), CREATE TABLE u (...),
\* CREATE VIEW v (...) AS ...
BodylessHeads == {<<"Insert", "t">>, <<"CreateAs", "t">>}

BodyHeads == {<<"TABLE", "t">>, <<"TABLE", "u">>, <<"VIEW", "v">>}

Heads == BodylessHeads \cup BodyHeads

MkStmt(h, b) ==
  IF h[1] = "Insert" THEN Insert(TableNode(h[2]))
  ELSE IF h[1] = "CreateAs" THEN Create("TABLE", TableNode(h[2]))
  ELSE Create(h[1], SchemaNode(TableNode(h[2]), b))

RECURSIVE SumTo(_, _)
SumTo(ks, i) == IF i = 0 THEN 0 ELSE ks[i] + SumTo(ks, i - 1)

\* The statement list whose i-th statement has head hs[i] and, as its body,
\* the next ks[i] nodes of flat.
MkInput(hs, ks, flat) ==
  [i \in 1..Len(hs) |->
     MkStmt(hs[i], SubSeq(flat, SumTo(ks, i - 1) + 1, SumTo(ks, i)))]

(***************************************************************************)
(* str() of the nodes the code renders                                     *)
(***************************************************************************)
PyStr(s) == <<s>>

StrIdentifier(id) ==
  IF id.args.quoted THEN <<"\"", id.args.this, "\"">> ELSE <<id.args.this>>

StrTable(t) == StrIdentifier(t.args.this)

RECURSIVE JoinIds(_)
JoinIds(ids) ==
  IF ids = <<>> THEN <<>>
  ELSE IF Len(ids) = 1 THEN StrIdentifier(ids[1])
  ELSE StrIdentifier(ids[1]) \o <<", ">> \o JoinIds(Tail(ids))

StrSchema(s) == StrTable(s.args.this) \o <<" (">> \o JoinIds(s.args.expressions) \o <<")">>

Str(node) ==
  CASE node.class = "Identifier" -> StrIdentifier(node)
    [] node.class = "Table" -> StrTable(node)
    [] node.class = "Schema" -> StrSchema(node)
    [] node.class = "DataType" -> <<node.args.this>>
    [] node.class = "ColumnConstraint" -> <<node.args.kind>>

(***************************************************************************)
(* extract_schema                                                          *)
(***************************************************************************)
EmptyDict == [k \in {} |-> {}]

NoExc == [type |-> "None", arg |-> <<>>]

KeyError(k) == [type |-> "KeyError", arg |-> k]

NoTable == [name |-> <<>>, columns |-> EmptyDict]

statement == result[si]

IsCreate(s) == s.class = "Create"

\* args = statement.args["this"].args
StmtArgs(s) == s.args.this.args

body == StmtArgs(statement).expressions

column_arg == body[bi]

Init ==
  /\ \E n \in 0..MaxSize :
       \E ks \in [1..n -> 0..MaxSize] :
         /\ n + SumTo(ks, n) <= MaxSize
         /\ \E hs \in [1..n -> Heads] :
              /\ \A i \in 1..n : hs[i] \in BodylessHeads => ks[i] = 0
              /\ \E flat \in [1..SumTo(ks, n) -> BodyNodes] :
                   result = MkInput(hs, ks, flat)
  /\ si = 1
  /\ bi = 1
  /\ pc = "for_stmt"
  /\ table = NoTable
  /\ schema = <<>>
  /\ exc = NoExc
  /\ output = <<>>

\* line 53: the statement is not an exp.Create
SkipStatement ==
  /\ pc = "for_stmt"
  /\ si <= Len(result)
  /\ ~IsCreate(statement)
  /\ si' = si + 1
  /\ UNCHANGED <<result, bi, pc, table, schema, exc, output>>

\* lines 54-58: a fresh table, then the loop over args["expressions"]
BeginTable ==
  /\ pc = "for_stmt"
  /\ si <= Len(result)
  /\ IsCreate(statement)
  /\ "expressions" \in DOMAIN StmtArgs(statement)
  /\ table' = [name |-> Str(StmtArgs(statement).this), columns |-> EmptyDict]
  /\ bi' = 1
  /\ pc' = "for_node"
  /\ UNCHANGED <<result, si, schema, exc, output>>

\* line 58: args["expressions"] on a Create whose target has no body
BeginTableKeyError ==
  /\ pc = "for_stmt"
  /\ si <= Len(result)
  /\ IsCreate(statement)
  /\ "expressions" \notin DOMAIN StmtArgs(statement)
  /\ table' = [name |-> Str(StmtArgs(statement).this), columns |-> EmptyDict]
  /\ exc' = KeyError(PyStr("expressions"))
  /\ pc' = "raised"
  /\ UNCHANGED <<result, si, bi, schema, output>>

AtNode ==
  /\ pc = "for_node"
  /\ bi <= Len(body)

\* A column built without reading the node's constraints list.
NewColumnNoConstraints(node) ==
  [type |-> Str(node.args.kind), constraints |-> <<>>]

\* lines 61-65
NewColumn(node) ==
  [type |-> Str(node.args.kind),
   constraints |-> [i \in 1..Len(node.args.constraints) |-> Str(node.args.constraints[i])]]

SetColumn(columns, node) == (Str(node.args.this) :> NewColumn(node)) @@ columns

ColumnDefStep ==
  /\ AtNode
  /\ column_arg.class = "ColumnDef"
  /\ "constraints" \in DOMAIN column_arg.args
  /\ table' = [table EXCEPT !.columns = SetColumn(@, column_arg)]
  /\ bi' = bi + 1
  /\ UNCHANGED <<result, si, pc, schema, exc, output>>

\* line 63: column_arg.args["constraints"] when the key is missing
ColumnDefKeyError ==
  /\ AtNode
  /\ column_arg.class = "ColumnDef"
  /\ "constraints" \notin DOMAIN column_arg.args
  /\ exc' = KeyError(PyStr("constraints"))
  /\ pc' = "raised"
  /\ UNCHANGED <<result, si, bi, table, schema, output>>

\* line 67: the first source column only, as the raw identifier text
FkName(node) == PyStr(node.args.expressions[1].args.this)

\* lines 68, 71
FkText(node) == <<"FOREIGN KEY REFERENCES ">> \o Str(node.args.reference.args.this)

\* lines 69-71
SetConstraint(columns, node) ==
  [columns EXCEPT ![FkName(node)] = ("constraint" :> FkText(node)) @@ @]

ForeignKeyStep ==
  /\ AtNode
  /\ column_arg.class = "ForeignKey"
  /\ FkName(column_arg) \in DOMAIN table.columns
  /\ table' = [table EXCEPT !.columns = SetConstraint(@, column_arg)]
  /\ bi' = bi + 1
  /\ UNCHANGED <<result, si, pc, schema, exc, output>>

\* line 69: table["columns"][name] when name is not a key yet
ForeignKeyKeyError ==
  /\ AtNode
  /\ column_arg.class = "ForeignKey"
  /\ FkName(column_arg) \notin DOMAIN table.columns
  /\ exc' = KeyError(FkName(column_arg))
  /\ pc' = "raised"
  /\ UNCHANGED <<result, si, bi, table, schema, output>>

\* lines 60, 66: neither isinstance test matches; the node is passed over
OtherNodeStep ==
  /\ AtNode
  /\ column_arg.class \notin {"ColumnDef", "ForeignKey"}
  /\ bi' = bi + 1
  /\ UNCHANGED <<result, si, pc, table, schema, exc, output>>

\* line 72
AppendTable ==
  /\ pc = "for_node"
  /\ bi > Len(body)
  /\ schema' = Append(schema, table)
  /\ si' = si + 1
  /\ pc' = "for_stmt"
  /\ UNCHANGED <<result, bi, table, exc, output>>

\* line 74
Return ==
  /\ pc = "for_stmt"
  /\ si > Len(result)
  /\ pc' = "returned"
  /\ UNCHANGED <<result, si, bi, table, schema, exc, output>>

\* lines 118-121: json.dump(schema, f)
MainDump ==
  /\ pc = "returned"
  /\ output' = <<schema>>
  /\ pc' = "saved"
  /\ UNCHANGED <<result, si, bi, table, schema, exc>>

\* lines 115-117: except Exception: print, exit(4)
MainExcept ==
  /\ pc = "raised"
  /\ pc' = "exit4"
  /\ UNCHANGED <<result, si, bi, table, schema, exc, output>>

Next ==
  \/ SkipStatement
  \/ BeginTable
  \/ BeginTableKeyError
  \/ ColumnDefStep
  \/ ColumnDefKeyError
  \/ ForeignKeyStep
  \/ ForeignKeyKeyError
  \/ OtherNodeStep
  \/ AppendTable
  \/ Return
  \/ MainDump
  \/ MainExcept

Spec == Init /\ [][Next]_vars

(***************************************************************************)
(* Vocabulary of the properties                                            *)
(***************************************************************************)
\* The run is over: the schema was dumped, or the process exited with 4.
Done == pc \in {"saved", "exit4"}

\* The statement just left by line 72, its body, and the entry it appended.
Appended == pc = "for_stmt" /\ si > 1 /\ IsCreate(result[si - 1])

doneBody == StmtArgs(result[si - 1]).expressions

entry == schema[Len(schema)]

\* The run raised while looking at body node bi of the current statement.
RaisedAtNode ==
  /\ pc \in {"raised", "exit4"}
  /\ "expressions" \in DOMAIN StmtArgs(statement)

IsFk(n) == n.class = "ForeignKey"

IsWellFormedColumnDef(n) == n.class = "ColumnDef" /\ "constraints" \in DOMAIN n.args

\* Node n is a column-definition for identifier id.
Defines(n, id) == n.class = "ColumnDef" /\ n.args.this = id

Range(f) == { f[i] : i \in DOMAIN f }

DefsOf(b, id) == { j \in 1..Len(b) : Defines(b[j], id) }

\* The name of the table a foreign-key node references.
ReferencedTable(fk) ==
  LET target == fk.args.reference.args.this
  IN  IF target.class = "Schema" THEN Str(target.args.this) ELSE Str(target)

\* Column col is what column-definition node n declares: its type, its
\* inline constraints in order.
Declares(col, n) ==
  /\ col.type = Str(n.args.kind)
  /\ Len(col.constraints) = Len(n.args.constraints)
  /\ \A i \in 1..Len(n.args.constraints) : col.constraints[i] = Str(n.args.constraints[i])

\* A body of well-formed column definitions with distinct names, no
\* foreign key and nothing else.
ColumnsOnly(b) ==
  /\ \A j \in 1..Len(b) : IsWellFormedColumnDef(b[j])
  /\ \A i, j \in 1..Len(b) : i # j => b[i].args.this # b[j].args.this

(***************************************************************************)
(* C1  Ordering independence                                               *)
(***************************************************************************)
\* C1: a foreign-key node whose source column has a (single, well-formed)
\* column definition somewhere in the same body never makes extraction
\* fail, and once the table is appended that column carries the declared
\* type and the reference, wherever the foreign-key node stands.
C1_OrderingIndependence ==
  /\ RaisedAtNode /\ IsFk(column_arg) =>
       \A id \in Range(column_arg.args.expressions) :
         \A d \in DefsOf(body, id) : ~IsWellFormedColumnDef(body[d])
  /\ Appended =>
       \A j \in 1..Len(doneBody) :
         IsFk(doneBody[j]) /\ Len(doneBody[j].args.expressions) = 1 =>
           LET id == doneBody[j].args.expressions[1]
           IN  \A d \in DefsOf(doneBody, id) :
                 DefsOf(doneBody, id) = {d} /\ IsWellFormedColumnDef(doneBody[d]) =>
                   /\ Str(id) \in DOMAIN entry.columns
                   /\ Declares(entry.columns[Str(id)], doneBody[d])
                   /\ "constraint" \in DOMAIN entry.columns[Str(id)]

(***************************************************************************)
(* C2  Dangling foreign key                                                *)
(***************************************************************************)
\* The exception classes the input-shape failures of lines 58 and 63 raise.
ShapeErrorTypes ==
  { KeyError(PyStr("expressions")).type, KeyError(PyStr("constraints")).type }

\* C2: a foreign-key node whose source column no column definition of the
\* body defines is reported as an error of a class of its own, one that no
\* input-shape failure raises, and no column of that name is created.
C2_DanglingForeignKey ==
  (/\ RaisedAtNode
   /\ IsFk(column_arg)
   /\ DefsOf(body, column_arg.args.expressions[1]) = {})
    => /\ exc.type \notin ShapeErrorTypes
       /\ FkName(column_arg) \notin DOMAIN table.columns

(***************************************************************************)
(* C3  Error locality                                                      *)
(***************************************************************************)
\* A table-creation statement nothing can go wrong with.
Extractable(s) ==
  /\ IsCreate(s)
  /\ s.args.kind = "TABLE"
  /\ "expressions" \in DOMAIN StmtArgs(s)
  /\ ColumnsOnly(StmtArgs(s).expressions)

\* C3: when the run is over, every table-creation statement that can be
\* extracted has its table in the schema the caller holds, whatever failed
\* in the other statements.
C3_ErrorLocality ==
  Done =>
    \A j \in 1..Len(result) :
      Extractable(result[j]) =>
        /\ Len(output) = 1
        /\ \E k \in 1..Len(output[1]) :
             /\ output[1][k].name = Str(StmtArgs(result[j]).this)
             /\ Cardinality(DOMAIN output[1][k].columns) = Len(StmtArgs(result[j]).expressions)

(***************************************************************************)
(* C4  Unsupported body nodes                                              *)
(***************************************************************************)
IsUnsupported(n) == n.class \notin {"ColumnDef", "ForeignKey"}

Supported(b) == SelectSeq(b, LAMBDA n : ~IsUnsupported(n))

RECURSIVE ColumnsOf(_)
\* The column mapping of a body of column definitions.
ColumnsOf(b) ==
  IF b = <<>> THEN EmptyDict
  ELSE SetColumn(ColumnsOf(SubSeq(b, 1, Len(b) - 1)), b[Len(b)])

\* C4: a body of column definitions and unsupported nodes is extracted
\* without error, its columns are those of the body without the
\* unsupported nodes, and the appended entry shows that a node was skipped:
\* it is not the entry the body without those nodes gives.
C4_UnsupportedObservable ==
  /\ RaisedAtNode => ~IsUnsupported(column_arg)
  /\ Appended =>
       ((/\ \E j \in 1..Len(doneBody) : IsUnsupported(doneBody[j])
         /\ \A j \in 1..Len(doneBody) :
              IsUnsupported(doneBody[j]) \/ IsWellFormedColumnDef(doneBody[j]))
        => /\ entry.columns = ColumnsOf(Supported(doneBody))
           /\ entry # [name |-> entry.name, columns |-> ColumnsOf(Supported(doneBody))])

(***************************************************************************)
(* C5  Columns without foreign keys                                        *)
(***************************************************************************)
\* C5: a table-creation statement whose body is N well-formed column
\* definitions with distinct names and no foreign key appends a table with
\* exactly N columns, each keyed by its name, with the declared type, the
\* inline constraints in order, and no "constraint" field.
C5_ColumnsWithoutForeignKeys ==
  Appended /\ ColumnsOnly(doneBody) =>
    /\ Cardinality(DOMAIN entry.columns) = Len(doneBody)
    /\ \A j \in 1..Len(doneBody) :
         LET key == Str(doneBody[j].args.this)
         IN  /\ key \in DOMAIN entry.columns
             /\ DOMAIN entry.columns[key] = {"type", "constraints"}
             /\ Declares(entry.columns[key], doneBody[j])

\* A table of three such columns, one of them with two inline constraints,
\* has been appended.
C5_Witness ==
  /\ Appended
  /\ ColumnsOnly(doneBody)
  /\ Len(doneBody) = 3
  /\ \E j \in 1..3 : Len(doneBody[j].args.constraints) = 2
  /\ Cardinality(DOMAIN entry.columns) = 3

(***************************************************************************)
(* C6  Schema shape                                                        *)
(***************************************************************************)
IsTableCreation(s) == IsCreate(s) /\ s.args.kind = "TABLE"

\* C6: the returned schema holds one entry per table-creation statement,
\* in source order, and nothing for any other statement.
C6_SchemaShape ==
  pc = "returned" =>
    LET creations == SelectSeq(result, IsTableCreation)
    IN  /\ Len(schema) = Len(creations)
        /\ \A k \in 1..Len(schema) :
             k <= Len(creations) => schema[k].name = Str(StmtArgs(creations[k]).this)

(***************************************************************************)
(* C7  Composite foreign keys                                              *)
(***************************************************************************)
\* C7: after a foreign-key node with two or more source columns, all
\* defined in the body, every one of those columns carries a reference.
C7_CompositeForeignKeys ==
  Appended =>
    \A j \in 1..Len(doneBody) :
      IsFk(doneBody[j]) /\ Len(doneBody[j].args.expressions) >= 2 =>
        \A id \in Range(doneBody[j].args.expressions) :
          Str(id) \in DOMAIN entry.columns =>
            "constraint" \in DOMAIN entry.columns[Str(id)]

(***************************************************************************)
(* C8  Absent constraints list                                             *)
(***************************************************************************)
\* C8: a column definition without a constraints field does not make
\* extraction fail, and its column has the empty constraints sequence.
C8_AbsentConstraints ==
  /\ RaisedAtNode =>
       ~(column_arg.class = "ColumnDef" /\ "constraints" \notin DOMAIN column_arg.args)
  /\ Appended =>
       \A j \in 1..Len(doneBody) :
         (/\ doneBody[j].class = "ColumnDef"
          /\ "constraints" \notin DOMAIN doneBody[j].args
          /\ DefsOf(doneBody, doneBody[j].args.this) = {j})
           => /\ Str(doneBody[j].args.this) \in DOMAIN entry.columns
              /\ entry.columns[Str(doneBody[j].args.this)].constraints = <<>>

(***************************************************************************)
(* C9  Foreign-key rendering and frame                                     *)
(***************************************************************************)
\* C9: the step that attaches a foreign-key node to column c sets c's
\* "constraint" to "FOREIGN KEY REFERENCES " followed by the name of the
\* referenced table, and changes neither c's type and constraints nor any
\* other column.
C9_ForeignKeyRendering ==
  [][ (AtNode /\ IsFk(column_arg) /\ pc' = "for_node") =>
        LET c == FkName(column_arg)
        IN  /\ DOMAIN table'.columns = DOMAIN table.columns
            /\ table'.columns[c].constraint =
                 <<"FOREIGN KEY REFERENCES ">> \o ReferencedTable(column_arg)
            /\ table'.columns[c].type = table.columns[c].type
            /\ table'.columns[c].constraints = table.columns[c].constraints
            /\ \A k \in DOMAIN table.columns \ {c} : table'.columns[k] = table.columns[k]
    ]_vars

(***************************************************************************)
(* C10  Duplicate column names                                             *)
(***************************************************************************)
\* C10: with two or more well-formed definitions of one column name in a
\* body, extraction raises nothing on account of that column, the mapping
\* holds the last definition under that name, and a foreign-key node
\* naming the column leaves its reference on that entry wherever it stands.
C10_DuplicateColumnNames ==
  /\ RaisedAtNode /\ IsFk(column_arg) =>
       Cardinality({ d \in DefsOf(body, column_arg.args.expressions[1]) :
                       IsWellFormedColumnDef(body[d]) }) < 2
  /\ Appended =>
       \A d \in 1..Len(doneBody) :
         (/\ doneBody[d].class = "ColumnDef"
          /\ Cardinality(DefsOf(doneBody, doneBody[d].args.this)) >= 2
          /\ \A i \in DefsOf(doneBody, doneBody[d].args.this) :
               i <= d /\ IsWellFormedColumnDef(doneBody[i]))
           => LET key == Str(doneBody[d].args.this)
              IN  /\ key \in DOMAIN entry.columns
                  /\ Declares(entry.columns[key], doneBody[d])
                  /\ (\E j \in 1..Len(doneBody) :
                        IsFk(doneBody[j]) /\ doneBody[j].args.expressions[1] = doneBody[d].args.this)
                       => "constraint" \in DOMAIN entry.columns[key]

====
